---- MODULE Spec2Model ----
(***************************************************************************)
(* Multiplayer game subsystem of app.py: game invitations, chess sessions  *)
(* and the move relay, over the three SQLite tables game_invitations,      *)
(* multiplayer_games and game_moves.                                       *)
(*                                                                         *)
(* Every request handler opens its own SQLite connection (get_db) and the  *)
(* connection is dropped when the request context ends, so the variables   *)
(* below hold the COMMITTED contents of the tables: statements a handler   *)
(* executes without a following db.commit() are rolled back when its       *)
(* connection is released.  PRAGMA foreign_keys is never switched on, so   *)
(* the FOREIGN KEY clauses of the schema are not enforced.  The timestamp *)
(* columns (created_at, last_updated, timestamp) are left out.             *)
(***************************************************************************)
EXTENDS Integers, Sequences, FiniteSets, TLC

(* ------------------------------ bounds --------------------------------- *)

\* rows ever inserted into users (AUTOINCREMENT ids 1..MaxUsers)
MaxUsers == 3
\* rows ever inserted into game_invitations
MaxInvites == 2
\* rows ever inserted into game_moves
MaxMoves == 2
\* rows ever inserted into game_moves in the specification of long games
MaxLog == 5
\* handlers run in two steps in the specification of overlapping requests
MaxRequests == 2

(* ------------------------- Python / SQLite values ---------------------- *)
\* A Python value is a tagged record; a table cell holds the Python value
\* the sqlite3 driver returns for it (None for NULL, int, str).

PyNone == [t |-> "none"]
PyInt(n) == [t |-> "int", n |-> n]
PyBool(b) == [t |-> "bool", b |-> b]
PyStr(s) == [t |-> "str", s |-> s]
PyList(items) == [t |-> "list", items |-> items]
\* a dict keeps its insertion order: keys[i] maps to vals[i]
PyDict(keys, vals) == [t |-> "dict", keys |-> keys, vals |-> vals]

\* Python truthiness, as used by `x if x else None` and `1 if x else 0`
Truthy(v) ==
    CASE v.t = "none" -> FALSE
      [] v.t = "int"  -> v.n # 0
      [] v.t = "bool" -> v.b
      [] v.t = "str"  -> v.s # ""
      [] v.t = "list" -> Len(v.items) > 0
      [] v.t = "dict" -> Len(v.keys) > 0

\* str(v) for the values a payload's player_id or a row's id can take
PyStrOf(v) ==
    CASE v.t = "none" -> "None"
      [] v.t = "int"  -> ToString(v.n)
      [] v.t = "str"  -> v.s

RECURSIVE json_dumps(_)
RECURSIVE JoinItems(_, _)
RECURSIVE JoinPairs(_, _, _)

\* ", ".join(json_dumps(x) for x in items[i..])
JoinItems(items, i) ==
    IF i > Len(items) THEN ""
    ELSE json_dumps(items[i]) \o (IF i < Len(items) THEN ", " ELSE "") \o JoinItems(items, i + 1)

JoinPairs(keys, vals, i) ==
    IF i > Len(keys) THEN ""
    ELSE "\"" \o keys[i] \o "\": " \o json_dumps(vals[i])
         \o (IF i < Len(keys) THEN ", " ELSE "") \o JoinPairs(keys, vals, i + 1)

\* json.dumps with the default separators
json_dumps(v) ==
    CASE v.t = "none" -> "null"
      [] v.t = "int"  -> ToString(v.n)
      [] v.t = "bool" -> (IF v.b THEN "true" ELSE "false")
      [] v.t = "str"  -> "\"" \o v.s \o "\""
      [] v.t = "list" -> "[" \o JoinItems(v.items, 1) \o "]"
      [] v.t = "dict" -> "{" \o JoinPairs(v.keys, v.vals, 1) \o "}"

\* one rank of a board: "." stands for None
PyRank(sq) == PyList([i \in 1..Len(sq) |-> IF sq[i] = "." THEN PyNone ELSE PyStr(sq[i])])

EmptyRank == PyRank(<<".", ".", ".", ".", ".", ".", ".", ".">>)

\* INITIAL_BOARD with black's king and queen on each other's squares
INITIAL_BOARD_KingQueenSwapped ==
    PyList(<< PyRank(<<"r", "n", "b", "k", "q", "b", "n", "r">>),
              PyRank(<<"p", "p", "p", "p", "p", "p", "p", "p">>),
              EmptyRank, EmptyRank, EmptyRank, EmptyRank,
              PyRank(<<"P", "P", "P", "P", "P", "P", "P", "P">>),
              PyRank(<<"R", "N", "B", "Q", "K", "B", "N", "R">>) >>)

INITIAL_BOARD ==
    PyList(<< PyRank(<<"r", "n", "b", "q", "k", "b", "n", "r">>),
              PyRank(<<"p", "p", "p", "p", "p", "p", "p", "p">>),
              EmptyRank, EmptyRank, EmptyRank, EmptyRank,
              PyRank(<<"P", "P", "P", "P", "P", "P", "P", "P">>),
              PyRank(<<"R", "N", "B", "Q", "K", "B", "N", "R">>) >>)

initial_castling_rights ==
    PyDict(<<"wK", "wQ", "bK", "bQ">>, <<PyBool(TRUE), PyBool(TRUE), PyBool(TRUE), PyBool(TRUE)>>)


(* ------------------------------ inputs --------------------------------- *)

\* users.id of the AdminAI account that create_ai_user_and_member inserts
\* into the fresh database
AI_USER_ID == 1

UserIds == 1..MaxUsers
\* The two accounts that invite each other.  Every other account (AdminAI
\* and later registrations) is an outsider who tries to accept, decline or
\* move in their games.
Members == {2, 3}
\* the <game_name> path segment of /invite_game
GameNames == {"chess", "racing"}
\* game_uuid values a request can carry: minted ones and not yet minted ones
Uuids == 1..MaxInvites

\* board after 1. e4 (row 6 is white's pawn rank, row 4 the fourth rank)
BoardAfterE4 ==
    PyList(<< PyRank(<<"r", "n", "b", "q", "k", "b", "n", "r">>),
              PyRank(<<"p", "p", "p", "p", "p", "p", "p", "p">>),
              EmptyRank, EmptyRank,
              PyRank(<<".", ".", ".", ".", "P", ".", ".", ".">>),
              EmptyRank,
              PyRank(<<"P", "P", "P", "P", ".", "P", "P", "P">>),
              PyRank(<<"R", "N", "B", "Q", "K", "B", "N", "R">>) >>)

EpE3 == PyDict(<<"row", "col">>, <<PyInt(5), PyInt(4)>>)
LastE4 == PyDict(<<"from", "to">>, <<PyList(<<PyInt(6), PyInt(4)>>), PyList(<<PyInt(4), PyInt(4)>>)>>)
MoveE4 == PyDict(<<"from", "to">>, <<PyStr("e2"), PyStr("e4")>>)

\* data['new_game_state'] of a make_move event
NewGameState(board, turn, over, winner, ep, lm) ==
    [current_board_state |-> board, current_turn |-> turn,
     white_captures |-> PyInt(0), black_captures |-> PyInt(0),
     castling_rights |-> initial_castling_rights,
     en_passant_target |-> ep, last_move |-> lm,
     game_over |-> over, winner_id |-> winner]

\* The payloads the model submits: each turn marker, one that names no
\* role (sent with empty and zero-valued structures and with the AdminAI
\* account as winner), a finished game with a winner, and a payload without
\* a turn marker.
NewGameStates ==
    {NewGameState(BoardAfterE4, t, PyBool(FALSE), PyNone, EpE3, LastE4) :
        t \in {PyStr("w"), PyStr("b"), PyNone}}
    \cup {NewGameState(BoardAfterE4, PyStr("b"), PyBool(TRUE), PyInt(2), PyNone, LastE4)}
    \cup {NewGameState(PyList(<<>>), PyStr("x"), PyBool(FALSE), PyInt(AI_USER_ID), PyInt(0),
                       PyDict(<<>>, <<>>))}

\* data['player_id'] of a make_move event
PlayerIds == {PyInt(u) : u \in UserIds} \cup {PyNone}

MoveDatas == {MoveE4}

\* every value json.dumps is applied to when a session row is written
JsonValues ==
    {INITIAL_BOARD, initial_castling_rights}
    \cup {s.current_board_state : s \in NewGameStates}
    \cup {s.castling_rights : s \in NewGameStates}
    \cup {s.en_passant_target : s \in NewGameStates}
    \cup {s.last_move : s \in NewGameStates}

\* json.dumps over those values, computed once
JsonText == [v \in JsonValues \cup MoveDatas |-> json_dumps(v)]
dumps(v) == JsonText[v]

\* json.loads of a text json.dumps produced; DecodeError stands for
\* json.JSONDecodeError
DecodeError == [t |-> "JSONDecodeError"]
json_loads(s) ==
    IF \E v \in JsonValues : dumps(v) = s
    THEN CHOOSE v \in JsonValues : dumps(v) = s
    ELSE DecodeError

(* ------------------------------- state --------------------------------- *)

VARIABLES
    users,        \* ids of the rows of table users
    userSeq,      \* AUTOINCREMENT counter of users
    invitations,  \* rows of table game_invitations
    invSeq,       \* AUTOINCREMENT counter of game_invitations
    uuidSeq,      \* number of uuid4 values drawn so far (each draw is fresh)
    games,        \* rows of table multiplayer_games
    moves,        \* rows of table game_moves, in id order
    last,         \* the request being answered: its handler, outcome and emits
    requests      \* handlers run in steps: what each has read, and its outcome

vars == <<users, userSeq, invitations, invSeq, uuidSeq, games, moves, last, requests>>
tables == <<users, userSeq, invitations, invSeq, uuidSeq, games, moves>>

\* emit(event, payload, room=...)
Emit(event, payload, room) == [event |-> event, payload |-> payload, room |-> room]
\* emit(..., broadcast=True): every connected client
SidRoom_Broadcast == [kind |-> "broadcast"]
\* room=game_uuid and room=request.sid
GameRoom(game_uuid) == [kind |-> "game_uuid", id |-> game_uuid]
SidRoom == [kind |-> "sid"]

Response(op, outcome, emits) == [op |-> op, outcome |-> outcome, emits |-> emits]
\* no request is being handled; requests are handled one at a time, each
\* from its start to the end of its request context
NoRequest == Response("none", "none", <<>>)

Init ==
    /\ users = {AI_USER_ID}
    /\ userSeq = 1
    /\ invitations = {}
    /\ invSeq = 0
    /\ uuidSeq = 0
    /\ games = {}
    /\ moves = <<>>
    /\ last = NoRequest
    /\ requests = <<>>


(* ------------------------------ accounts ------------------------------- *)

\* POST /register with a valid form: INSERT INTO users, commit
Register ==
    /\ last = NoRequest
    /\ UNCHANGED requests
    /\ userSeq < MaxUsers
    /\ users' = users \cup {userSeq + 1}
    /\ userSeq' = userSeq + 1
    /\ last' = Response("register", "ok", <<>>)
    /\ UNCHANGED <<invitations, invSeq, uuidSeq, games, moves>>

\* admin_manage_users, action delete_user: the handler deletes the user's
\* game_invitations and the users row and commits; it deletes nothing from
\* multiplayer_games or game_moves, and with foreign keys unenforced no
\* ON DELETE CASCADE fires
DeleteUser(user_id_to_delete) ==
    /\ last = NoRequest
    /\ UNCHANGED requests
    /\ IF user_id_to_delete \notin users
       THEN /\ last' = Response("delete_user", "user_not_found", <<>>)
            /\ UNCHANGED tables
       ELSE IF user_id_to_delete = AI_USER_ID
       THEN /\ last' = Response("delete_user", "special_account", <<>>)
            /\ UNCHANGED tables
       ELSE /\ invitations' = {i \in invitations :
                                  ~(i.sender_id = user_id_to_delete \/ i.recipient_id = user_id_to_delete)}
            /\ users' = users \ {user_id_to_delete}
            /\ last' = Response("delete_user", "deleted", <<>>)
            /\ UNCHANGED <<userSeq, invSeq, uuidSeq, games, moves>>

(* ----------------------------- invitations ----------------------------- *)

\* the existence query looking only for the caller's own pending invitation
ExistingInviteWhere_OneDirection(i, current_user_id, recipient_id, game_name) ==
    /\ i.sender_id = current_user_id /\ i.recipient_id = recipient_id
    /\ i.game_name = game_name
    /\ i.status = "pending"

\* the WHERE clause of invite_game's existence query; AND binds tighter
\* than OR in SQL, so game_name and status qualify the second pair only
ExistingInviteWhere(i, current_user_id, recipient_id, game_name) ==
    \/ (i.sender_id = current_user_id /\ i.recipient_id = recipient_id)
    \/ (/\ (i.sender_id = recipient_id /\ i.recipient_id = current_user_id)
        /\ i.game_name = game_name
        /\ i.status = "pending")

\* the comparison of a str id with an int id, which is never equal
IsSelfInvite_StrAgainstInt(current_user_id, recipient_id) == FALSE

\* current_user.id == recipient_id
IsSelfInvite(current_user_id, recipient_id) == current_user_id = recipient_id

\* POST /invite_game/<game_name>/<recipient_id> as the logged-in current_user
InviteGame(current_user_id, game_name, recipient_id) ==
    /\ last = NoRequest
    /\ UNCHANGED requests
    /\ current_user_id \in users
    /\ IF recipient_id \notin users
       THEN /\ last' = Response("invite_game", "recipient_not_found", <<>>)
            /\ UNCHANGED tables
       ELSE IF IsSelfInvite(current_user_id, recipient_id)
       THEN /\ last' = Response("invite_game", "self_invite", <<>>)
            /\ UNCHANGED tables
       ELSE IF \E i \in invitations : ExistingInviteWhere(i, current_user_id, recipient_id, game_name)
       THEN /\ last' = Response("invite_game", "duplicate", <<>>)
            /\ UNCHANGED tables
       ELSE /\ invSeq < MaxInvites
            /\ uuidSeq' = uuidSeq + 1
            /\ invSeq' = invSeq + 1
            /\ invitations' = invitations \cup
                  {[id |-> invSeq + 1, sender_id |-> current_user_id, recipient_id |-> recipient_id,
                    game_name |-> game_name, status |-> "pending", game_uuid |-> uuidSeq + 1]}
            /\ last' = Response("invite_game", "sent", <<>>)
            /\ UNCHANGED <<users, userSeq, games, moves>>

\* the lookup without its status condition
PendingInvite_AnyStatus(game_uuid, current_user_id) ==
    {i \in invitations : i.game_uuid = game_uuid /\ i.recipient_id = current_user_id}

\* the lookup without its recipient_id condition
PendingInvite_AnyCaller(game_uuid, current_user_id) ==
    {i \in invitations : i.game_uuid = game_uuid /\ i.status = "pending"}

\* SELECT * FROM game_invitations WHERE game_uuid = ? AND recipient_id = ?
\* AND status = "pending"  (game_uuid is UNIQUE: at most one row)
PendingInvite(game_uuid, current_user_id) ==
    {i \in invitations : i.game_uuid = game_uuid /\ i.recipient_id = current_user_id
                         /\ i.status = "pending"}

\* the UPDATE without its WHERE clause
SetStatus_EveryRow(id, status) == {[i EXCEPT !.status = status] : i \in invitations}

\* UPDATE game_invitations SET status = ? WHERE id = ?
SetStatus(id, status) ==
    {IF i.id = id THEN [i EXCEPT !.status = status] ELSE i : i \in invitations}

\* the row accept_invite inserts into multiplayer_games
NewGameRow(invite, player_white_id, player_black_id) ==
    [game_uuid |-> invite.game_uuid, game_name |-> invite.game_name,
     player_white_id |-> player_white_id, player_black_id |-> player_black_id,
     current_board_state |-> PyStr(dumps(INITIAL_BOARD)), current_turn |-> PyStr("w"),
     white_captures |-> PyInt(0), black_captures |-> PyInt(0),
     castling_rights |-> PyStr(dumps(initial_castling_rights)),
     en_passant_target |-> PyNone, last_move |-> PyNone,
     game_over |-> PyInt(0), winner_id |-> PyNone]

\* the colour draw with the swap left out for white, and taken twice for black
PlayerWhite_NeverSwapped(invite, swap) == invite.sender_id
PlayerBlack_AlwaysRecipient(invite, swap) == invite.recipient_id

\* player_white_id after the colour draw; swap is random.random() < 0.5
PlayerWhite(invite, swap) == IF swap THEN invite.recipient_id ELSE invite.sender_id
PlayerBlack(invite, swap) == IF swap THEN invite.sender_id ELSE invite.recipient_id

\* POST /accept_invite/<game_uuid> as the logged-in current_user.  The
\* status UPDATE is committed only on the chess branch; on the other
\* branch the handler returns without db.commit() and the UPDATE is lost.
AcceptInvite(current_user_id, game_uuid, swap) ==
    /\ last = NoRequest
    /\ UNCHANGED requests
    /\ current_user_id \in users
    /\ IF PendingInvite(game_uuid, current_user_id) = {}
       THEN /\ last' = Response("accept_invite", "not_found", <<>>)
            /\ UNCHANGED tables
       ELSE LET invite == CHOOSE i \in PendingInvite(game_uuid, current_user_id) : TRUE IN
            IF invite.game_name = "chess"
            THEN IF \E g \in games : g.game_uuid = game_uuid
                 THEN \* PRIMARY KEY violation: the request fails, nothing is committed
                      /\ last' = Response("accept_invite", "integrity_error", <<>>)
                      /\ UNCHANGED tables
                 ELSE /\ invitations' = SetStatus(invite.id, "accepted")
                      /\ games' = games \cup
                            {NewGameRow(invite, PlayerWhite(invite, swap), PlayerBlack(invite, swap))}
                      /\ last' = Response("accept_invite", "game_started", <<>>)
                      /\ UNCHANGED <<users, userSeq, invSeq, uuidSeq, moves>>
            ELSE /\ last' = Response("accept_invite", "accepted", <<>>)
                 /\ UNCHANGED tables

\* POST /decline_invite/<game_uuid> as the logged-in current_user
DeclineInvite(current_user_id, game_uuid) ==
    /\ last = NoRequest
    /\ UNCHANGED requests
    /\ current_user_id \in users
    /\ IF PendingInvite(game_uuid, current_user_id) = {}
       THEN /\ last' = Response("decline_invite", "not_found", <<>>)
            /\ UNCHANGED tables
       ELSE LET invite == CHOOSE i \in PendingInvite(game_uuid, current_user_id) : TRUE IN
            /\ invitations' = SetStatus(invite.id, "declined")
            /\ last' = Response("decline_invite", "declined", <<>>)
            /\ UNCHANGED <<users, userSeq, invSeq, uuidSeq, games, moves>>


(* ------------------------------ move relay ----------------------------- *)

\* SELECT * FROM multiplayer_games WHERE game_uuid = ?
GameRows(game_uuid) == {g \in games : g.game_uuid = game_uuid}

\* the turn check of handle_make_move: TRUE when the move is refused
NotYourTurn(game_row, player_id) ==
    LET current_turn_color == game_row.current_turn
        is_white_player == PyStrOf(player_id) = PyStrOf(PyInt(game_row.player_white_id))
        is_black_player == PyStrOf(player_id) = PyStrOf(PyInt(game_row.player_black_id))
    IN  \/ (current_turn_color = PyStr("w") /\ ~is_white_player)
        \/ (current_turn_color = PyStr("b") /\ ~is_black_player)

\* json.dumps(x) if x else None
DumpsOrNone(x) == IF Truthy(x) THEN PyStr(dumps(x)) ELSE PyNone

\* the UPDATE left out of the committed transaction
UpdatedGameRow_NotWritten(game_row, new_game_state) == game_row

\* the row after UPDATE multiplayer_games SET ... WHERE game_uuid = ?
UpdatedGameRow(game_row, new_game_state) ==
    [game_row EXCEPT
        !.current_board_state = PyStr(dumps(new_game_state.current_board_state)),
        !.current_turn = new_game_state.current_turn,
        !.white_captures = new_game_state.white_captures,
        !.black_captures = new_game_state.black_captures,
        !.castling_rights = PyStr(dumps(new_game_state.castling_rights)),
        !.en_passant_target = DumpsOrNone(new_game_state.en_passant_target),
        !.last_move = DumpsOrNone(new_game_state.last_move),
        !.game_over = IF Truthy(new_game_state.game_over) THEN PyInt(1) ELSE PyInt(0),
        !.winner_id = new_game_state.winner_id]

\* SELECT COUNT(*) FROM game_moves WHERE game_uuid = ?
MoveCount(game_uuid) == Cardinality({k \in 1..Len(moves) : moves[k].game_uuid = game_uuid})

\* the count taken over the whole table, without WHERE game_uuid = ?
MoveNumber_AllSessions(game_uuid) == (Len(moves) \div 2) + 1

\* move_number = (count // 2) + 1
MoveNumber(game_uuid) == (MoveCount(game_uuid) \div 2) + 1

\* the row handle_make_move inserts into game_moves
NewMoveRow(game_uuid, player_id, move_data) ==
    [id |-> Len(moves) + 1, game_uuid |-> game_uuid, move_number |-> MoveNumber(game_uuid),
     player_id |-> player_id, move_data |-> PyStr(dumps(move_data))]

\* the INSERT keyed on (game_uuid, move_number), replacing the row of the
\* same full move
InsertMove_ReplacesSameNumber(row) ==
    IF \E k \in 1..Len(moves) :
          moves[k].game_uuid = row.game_uuid /\ moves[k].move_number = row.move_number
    THEN [k \in 1..Len(moves) |->
            IF moves[k].game_uuid = row.game_uuid /\ moves[k].move_number = row.move_number
            THEN row ELSE moves[k]]
    ELSE Append(moves, row)

\* game_moves after INSERT INTO game_moves (...) VALUES (...)
InsertMove(row) == Append(moves, row)

\* the payload handle_make_move emits after the commit
StateUpdate(new_game_state) ==
    [current_board_state |-> new_game_state.current_board_state,
     current_turn |-> new_game_state.current_turn,
     white_captures |-> new_game_state.white_captures,
     black_captures |-> new_game_state.black_captures,
     castling_rights |-> new_game_state.castling_rights,
     en_passant_target |-> new_game_state.en_passant_target,
     last_move |-> new_game_state.last_move,
     game_over |-> new_game_state.game_over,
     winner_id |-> new_game_state.winner_id]

GameError(message, room) == Emit("game_error", PyStr(message), room)

\* socket event make_move, with at most limit rows in game_moves.  The
\* handler takes the mover from the payload;
\* it reads no login and never looks at game_row['game_over'].
\* current_turn is TEXT NOT NULL and game_moves.player_id INTEGER NOT NULL:
\* a None there raises sqlite3.IntegrityError, which the handler catches
\* without committing.
MakeMoveWithin(limit, game_uuid, player_id, move_data, new_game_state) ==
    /\ last = NoRequest
    /\ UNCHANGED requests
    /\ IF GameRows(game_uuid) = {}
       THEN /\ last' = Response("make_move", "game_not_found",
                                <<GameError("Game not found.", GameRoom(game_uuid))>>)
            /\ UNCHANGED tables
       ELSE LET game_row == CHOOSE g \in GameRows(game_uuid) : TRUE IN
            IF NotYourTurn(game_row, player_id)
            THEN /\ last' = Response("make_move", "not_your_turn",
                                     <<GameError("It is not your turn.", GameRoom(game_uuid))>>)
                 /\ UNCHANGED tables
            ELSE IF new_game_state.current_turn = PyNone \/ player_id = PyNone
            THEN /\ last' = Response("make_move", "database_error",
                                     <<GameError("Database error", GameRoom(game_uuid))>>)
                 /\ UNCHANGED tables
            ELSE /\ Len(moves) < limit
                 /\ games' = (games \ {game_row}) \cup {UpdatedGameRow(game_row, new_game_state)}
                 /\ moves' = InsertMove(NewMoveRow(game_uuid, player_id, move_data))
                 /\ last' = Response("make_move", "accepted",
                                     <<Emit("game_state_update", StateUpdate(new_game_state),
                                            GameRoom(game_uuid))>>)
                 /\ UNCHANGED <<users, userSeq, invitations, invSeq, uuidSeq>>

MakeMove(game_uuid, player_id, move_data, new_game_state) ==
    MakeMoveWithin(MaxMoves, game_uuid, player_id, move_data, new_game_state)

\* dict(game_data) with the four JSON columns parsed back
GameStateForJson(game_data) ==
    LET Parse(value) ==
            IF value.t = "str"
            THEN (IF json_loads(value.s) = DecodeError THEN PyNone ELSE json_loads(value.s))
            ELSE value
    IN  [game_data EXCEPT
            !.current_board_state = Parse(game_data.current_board_state),
            !.castling_rights = Parse(game_data.castling_rights),
            !.en_passant_target = Parse(game_data.en_passant_target),
            !.last_move = Parse(game_data.last_move)]

\* socket event request_game_state: answers on room=request.sid only
RequestGameState(game_uuid) ==
    /\ last = NoRequest
    /\ UNCHANGED requests
    /\ IF GameRows(game_uuid) # {}
       THEN LET game_data == CHOOSE g \in GameRows(game_uuid) : TRUE IN
            last' = Response("request_game_state", "state",
                             <<Emit("game_state_update", GameStateForJson(game_data), SidRoom)>>)
       ELSE last' = Response("request_game_state", "not_found",
                             <<GameError("Game state not found.", SidRoom)>>)
    /\ UNCHANGED tables

(* ---------------------------- specification ---------------------------- *)

\* the request context ends: the response has gone out and the handler's
\* connection is released
Teardown ==
    /\ last # NoRequest
    /\ last' = NoRequest
    /\ UNCHANGED <<tables, requests>>

Next ==
    \/ Register
    \/ \E u \in UserIds : DeleteUser(u)
    \/ \E u \in Members, n \in GameNames, r \in Members : InviteGame(u, n, r)
    \/ \E u \in UserIds, t \in Uuids, swap \in BOOLEAN : AcceptInvite(u, t, swap)
    \/ \E u \in UserIds, t \in Uuids : DeclineInvite(u, t)
    \/ \E t \in Uuids, p \in PlayerIds, m \in MoveDatas, s \in NewGameStates : MakeMove(t, p, m, s)
    \/ \E t \in Uuids : RequestGameState(t)
    \/ Teardown

Spec == Init /\ [][Next]_vars

\* Long games: the two members play chess with payloads that name a role,
\* up to MaxLog moves over their sessions.
TurnStates == {s \in NewGameStates :
                  /\ s.current_turn \in {PyStr("w"), PyStr("b")}
                  /\ ~Truthy(s.game_over)}

NextLongGame ==
    \/ Register
    \/ \E u \in Members, r \in Members : InviteGame(u, "chess", r)
    \/ \E u \in Members, t \in Uuids, swap \in BOOLEAN : AcceptInvite(u, t, swap)
    \/ \E t \in Uuids, u \in Members, m \in MoveDatas, s \in TurnStates :
           MakeMoveWithin(MaxLog, t, PyInt(u), m, s)
    \/ Teardown

SpecLongGame == Init /\ [][NextLongGame]_vars


(* ------------------------- overlapping requests ------------------------ *)

\* the role an identity holds in a session
RoleOf(g, player_id) ==
    IF player_id = PyInt(g.player_white_id) THEN "w"
    ELSE IF player_id = PyInt(g.player_black_id) THEN "b"
    ELSE "outsider"

Complement(role) == IF role = "w" THEN "b" ELSE "w"
\* Handlers that overlap: a handler reads on its own connection, another
\* handler runs, and the first then writes what it decided from its read.
\* No handler opens a transaction before its SELECT, and SQLite lets one
\* connection write at a time, so a handler is two steps: its SELECTs with
\* the checks made on them, and its write transaction up to db.commit().
\* requests[k] keeps what the k-th such handler read, the requests that
\* were between their two steps when it read, and its outcome.
\* Two handlers overlap like this when they run in different workers
\* (processes or threads) over the one database file.  Inside a single
\* gevent worker, as socketio.run starts it, sqlite3 calls never yield and
\* a handler runs from its SELECT to its commit undisturbed: that is the
\* behaviour of Spec.

InFlight == {k \in 1..Len(requests) : requests[k].stage = "read"}

Started(request) ==
    Append(requests, request @@ [stage |-> "read", outcome |-> "none", overlap |-> InFlight])

Finished(k, outcome) == [requests EXCEPT ![k].stage = "done", ![k].outcome = outcome]

\* invite_game up to `if existing_invite:`, with every check passed
InviteRead(current_user_id, game_name, recipient_id) ==
    /\ last = NoRequest
    /\ Len(requests) < MaxRequests
    /\ current_user_id \in users /\ recipient_id \in users
    /\ ~IsSelfInvite(current_user_id, recipient_id)
    /\ ~\E i \in invitations : ExistingInviteWhere(i, current_user_id, recipient_id, game_name)
    /\ requests' = Started([op |-> "invite_game", current_user_id |-> current_user_id,
                            game_name |-> game_name, recipient_id |-> recipient_id])
    /\ UNCHANGED <<tables, last>>

\* the INSERT behind a second look at the table, inside one transaction
InviteWrite_ChecksAgain(k) ==
    /\ last = NoRequest
    /\ k \in InFlight /\ requests[k].op = "invite_game"
    /\ invSeq < MaxInvites
    /\ IF \E i \in invitations :
             /\ {i.sender_id, i.recipient_id} = {requests[k].current_user_id, requests[k].recipient_id}
             /\ i.game_name = requests[k].game_name /\ i.status = "pending"
       THEN /\ requests' = Finished(k, "duplicate")
            /\ UNCHANGED <<tables, last>>
       ELSE /\ uuidSeq' = uuidSeq + 1
            /\ invSeq' = invSeq + 1
            /\ invitations' = invitations \cup
                  {[id |-> invSeq + 1, sender_id |-> requests[k].current_user_id,
                    recipient_id |-> requests[k].recipient_id, game_name |-> requests[k].game_name,
                    status |-> "pending", game_uuid |-> uuidSeq + 1]}
            /\ requests' = Finished(k, "sent")
            /\ UNCHANGED <<users, userSeq, games, moves, last>>

\* invite_game from uuid.uuid4() to db.commit()
InviteWrite(k) ==
    /\ last = NoRequest
    /\ k \in InFlight /\ requests[k].op = "invite_game"
    /\ invSeq < MaxInvites
    /\ uuidSeq' = uuidSeq + 1
    /\ invSeq' = invSeq + 1
    /\ invitations' = invitations \cup
          {[id |-> invSeq + 1, sender_id |-> requests[k].current_user_id,
            recipient_id |-> requests[k].recipient_id, game_name |-> requests[k].game_name,
            status |-> "pending", game_uuid |-> uuidSeq + 1]}
    /\ requests' = Finished(k, "sent")
    /\ UNCHANGED <<users, userSeq, games, moves, last>>

\* accept_invite up to `if not invite:`, with a row found
AcceptRead(current_user_id, game_uuid, swap) ==
    /\ last = NoRequest
    /\ Len(requests) < MaxRequests
    /\ current_user_id \in users
    /\ PendingInvite(game_uuid, current_user_id) # {}
    /\ requests' = Started([op |-> "accept_invite",
                            invite |-> CHOOSE i \in PendingInvite(game_uuid, current_user_id) : TRUE,
                            swap |-> swap])
    /\ UNCHANGED <<tables, last>>

\* accept_invite from its UPDATE on: the UPDATE names the row by id only.
\* A session row with the token already there makes the INSERT raise
\* sqlite3.IntegrityError, which nothing catches: the request fails and
\* commits nothing.
AcceptWrite(k) ==
    /\ last = NoRequest
    /\ k \in InFlight /\ requests[k].op = "accept_invite"
    /\ LET invite == requests[k].invite
           swap == requests[k].swap
       IN  IF invite.game_name = "chess"
           THEN IF \E g \in games : g.game_uuid = invite.game_uuid
                THEN /\ requests' = Finished(k, "integrity_error")
                     /\ UNCHANGED <<tables, last>>
                ELSE /\ invitations' = SetStatus(invite.id, "accepted")
                     /\ games' = games \cup
                           {NewGameRow(invite, PlayerWhite(invite, swap), PlayerBlack(invite, swap))}
                     /\ requests' = Finished(k, "game_started")
                     /\ UNCHANGED <<users, userSeq, invSeq, uuidSeq, moves, last>>
           ELSE /\ requests' = Finished(k, "accepted")
                /\ UNCHANGED <<tables, last>>

\* decline_invite up to `if not invite:`, with a row found
DeclineRead(current_user_id, game_uuid) ==
    /\ last = NoRequest
    /\ Len(requests) < MaxRequests
    /\ current_user_id \in users
    /\ PendingInvite(game_uuid, current_user_id) # {}
    /\ requests' = Started([op |-> "decline_invite",
                            invite |-> CHOOSE i \in PendingInvite(game_uuid, current_user_id) : TRUE])
    /\ UNCHANGED <<tables, last>>

\* decline_invite's UPDATE and commit
DeclineWrite(k) ==
    /\ last = NoRequest
    /\ k \in InFlight /\ requests[k].op = "decline_invite"
    /\ invitations' = SetStatus(requests[k].invite.id, "declined")
    /\ requests' = Finished(k, "declined")
    /\ UNCHANGED <<users, userSeq, invSeq, uuidSeq, games, moves, last>>

\* handle_make_move up to its turn check, passed.  The event comes from a
\* participant's own client: it names the participant and hands the turn
\* to the other role.
MoveRead(game_uuid, user_id, move_data, new_game_state) ==
    /\ last = NoRequest
    /\ Len(requests) < MaxRequests
    /\ GameRows(game_uuid) # {}
    /\ LET game_row == CHOOSE g \in GameRows(game_uuid) : TRUE IN
          /\ RoleOf(game_row, PyInt(user_id)) \in {"w", "b"}
          /\ new_game_state.current_turn = PyStr(Complement(RoleOf(game_row, PyInt(user_id))))
          /\ ~NotYourTurn(game_row, PyInt(user_id))
    /\ requests' = Started([op |-> "make_move", game_uuid |-> game_uuid,
                            player_id |-> PyInt(user_id), move_data |-> move_data,
                            new_game_state |-> new_game_state])
    /\ UNCHANGED <<tables, last>>

\* handle_make_move from its UPDATE to db.commit(): the UPDATE names the
\* row by game_uuid only and the count is taken at this point
MoveWrite(k) ==
    /\ last = NoRequest
    /\ k \in InFlight /\ requests[k].op = "make_move"
    /\ Len(moves) < MaxMoves
    /\ LET game_row == CHOOSE g \in GameRows(requests[k].game_uuid) : TRUE IN
          games' = (games \ {game_row}) \cup {UpdatedGameRow(game_row, requests[k].new_game_state)}
    /\ moves' = InsertMove(NewMoveRow(requests[k].game_uuid, requests[k].player_id,
                                       requests[k].move_data))
    /\ requests' = Finished(k, "accepted")
    /\ UNCHANGED <<users, userSeq, invitations, invSeq, uuidSeq, last>>

\* The two members and chess invitations, with the colour draw kept at
\* "no swap": neither the game kind nor the colours play a part in how
\* handlers overlap.  Invitations and sessions are also set up by handlers
\* that run undisturbed.
NextOverlap ==
    \/ Register
    \/ \E u \in Members, r \in Members : InviteGame(u, "chess", r)
    \/ \E u \in Members, t \in Uuids : AcceptInvite(u, t, FALSE)
    \/ Teardown
    \/ \E u \in Members, r \in Members : InviteRead(u, "chess", r)
    \/ \E k \in 1..MaxRequests : InviteWrite(k)
    \/ \E u \in Members, t \in Uuids : AcceptRead(u, t, FALSE)
    \/ \E k \in 1..MaxRequests : AcceptWrite(k)
    \/ \E u \in Members, t \in Uuids : DeclineRead(u, t)
    \/ \E k \in 1..MaxRequests : DeclineWrite(k)
    \/ \E t \in Uuids, u \in Members, m \in MoveDatas, s \in TurnStates : MoveRead(t, u, m, s)
    \/ \E k \in 1..MaxRequests : MoveWrite(k)

SpecOverlap == Init /\ [][NextOverlap]_vars


(* ----------------------------- properties ------------------------------ *)

\* the game_moves rows of one session, in insertion order
MovesOf(game_uuid) ==
    LET OfGame(m) == m.game_uuid = game_uuid IN SelectSeq(moves, OfGame)

\* player_id holds the role that the session's turn marker names
OccupiesTurnRole(g, player_id) ==
    /\ g.current_turn \in {PyStr("w"), PyStr("b")}
    /\ g.current_turn = PyStr(RoleOf(g, player_id))

\* C1: a make_move whose player_id does not hold the role named by the
\* session's current_turn (an outsider included) is answered with the
\* not-your-turn error, changes no multiplayer_games row and appends no
\* game_moves row, whatever moves were accepted before.
C1_OffTurnMoveRejected ==
    [][\A t \in Uuids, p \in PlayerIds, m \in MoveDatas, s \in NewGameStates :
          (/\ \E g \in GameRows(t) : ~OccupiesTurnRole(g, p)
           /\ MakeMove(t, p, m, s))
          => (last'.outcome = "not_your_turn" /\ UNCHANGED <<games, moves>>)]_vars

\* C2: a make_move on a session whose game_over flag is set is answered
\* with a game-over error, whoever moves, and changes no multiplayer_games
\* row and appends no game_moves row.
C2_MoveAfterGameOverRejected ==
    [][\A t \in Uuids, p \in PlayerIds, m \in MoveDatas, s \in NewGameStates :
          (/\ \E g \in GameRows(t) : g.game_over = PyInt(1)
           /\ MakeMove(t, p, m, s))
          => (last'.outcome = "game_over" /\ UNCHANGED <<games, moves>>)]_vars

\* C3: the turn strictly alternates: consecutive game_moves rows of a
\* session are made by different roles, and after an accepted move the
\* session's current_turn is the complement of the mover's role.
C3_TurnAlternates ==
    \A g \in games :
        LET ms == MovesOf(g.game_uuid) IN
        /\ \A k \in 1..(Len(ms) - 1) :
              RoleOf(g, ms[k].player_id) # RoleOf(g, ms[k + 1].player_id)
        /\ Len(ms) > 0 =>
              g.current_turn = PyStr(Complement(RoleOf(g, ms[Len(ms)].player_id)))

\* C4: a session token has at most one multiplayer_games row, and has one
\* exactly when the invitation carrying the token is an accepted chess
\* invitation; pending and declined invitations have no session.
C4_SessionIffAcceptedChessInvite ==
    \A t \in Uuids :
        /\ Cardinality(GameRows(t)) <= 1
        /\ GameRows(t) # {} <=>
              \E i \in invitations :
                  i.game_uuid = t /\ i.status = "accepted" /\ i.game_name = "chess"

\* C5: every multiplayer_games row has two distinct participants, they are
\* the sender and the recipient of the invitation with the row's token, and
\* a row's participants never change.
C5_TwoDistinctParticipants ==
    /\ [](\A g \in games :
            /\ g.player_white_id # g.player_black_id
            /\ \A i \in invitations :
                  i.game_uuid = g.game_uuid =>
                     {g.player_white_id, g.player_black_id} = {i.sender_id, i.recipient_id})
    /\ [][\A g \in games, h \in games' :
             g.game_uuid = h.game_uuid =>
                (g.player_white_id = h.player_white_id /\ g.player_black_id = h.player_black_id)]_vars

C5_Witness ==
    \E g \in games, i \in invitations :
        /\ i.game_uuid = g.game_uuid
        /\ g.player_white_id = i.recipient_id
        /\ g.player_black_id = i.sender_id

\* C6: the colours of a new chess session are decided by the one random
\* draw of accept_invite and nothing else: when the draw is below 0.5 the
\* recipient plays white and the sender black, otherwise the sender plays
\* white and the recipient black.
C6_ColoursFollowTheDraw ==
    [][\A u \in UserIds, t \in Uuids, swap \in BOOLEAN :
          (AcceptInvite(u, t, swap) /\ last'.outcome = "game_started")
          => \E i \in invitations, g \in games' \ games :
                /\ i.game_uuid = t /\ g.game_uuid = t
                /\ swap => (g.player_white_id = i.recipient_id /\ g.player_black_id = i.sender_id)
                /\ ~swap => (g.player_white_id = i.sender_id /\ g.player_black_id = i.recipient_id)]_vars

\* both assignments have happened: one session has the sender as white,
\* another has the recipient as white
C6_Witness ==
    \E g \in games, h \in games, i \in invitations, j \in invitations :
        /\ i.game_uuid = g.game_uuid /\ j.game_uuid = h.game_uuid
        /\ g.player_white_id = i.sender_id
        /\ h.player_white_id = j.recipient_id

\* the standard chess starting position, rank 8 first
BackRank == <<"r", "n", "b", "q", "k", "b", "n", "r">>
WhitePiece == [c \in {"r", "n", "b", "q", "k", "p"} |->
                 CASE c = "r" -> "R" [] c = "n" -> "N" [] c = "b" -> "B"
                   [] c = "q" -> "Q" [] c = "k" -> "K" [] c = "p" -> "P"]
StandardSquare(rank, file) ==
    CASE rank = 1 -> PyStr(BackRank[file])
      [] rank = 2 -> PyStr("p")
      [] rank = 7 -> PyStr(WhitePiece["p"])
      [] rank = 8 -> PyStr(WhitePiece[BackRank[file]])
      [] OTHER -> PyNone

CanonicalStart(g) ==
    /\ g.current_board_state.t = "str"
    /\ LET board == json_loads(g.current_board_state.s) IN
          /\ board.t = "list" /\ Len(board.items) = 8
          /\ \A r \in 1..8 :
                /\ board.items[r].t = "list" /\ Len(board.items[r].items) = 8
                /\ \A f \in 1..8 : board.items[r].items[f] = StandardSquare(r, f)
    /\ g.current_turn = PyStr("w")
    /\ g.white_captures = PyInt(0) /\ g.black_captures = PyInt(0)
    /\ g.castling_rights.t = "str"
    /\ LET rights == json_loads(g.castling_rights.s) IN
          /\ rights.t = "dict"
          /\ {rights.keys[k] : k \in 1..Len(rights.keys)} = {"wK", "wQ", "bK", "bQ"}
          /\ \A k \in 1..Len(rights.vals) : rights.vals[k] = PyBool(TRUE)
    /\ g.en_passant_target = PyNone
    /\ g.last_move = PyNone
    /\ g.game_over = PyInt(0)
    /\ g.winner_id = PyNone

\* C7: the session created by accepting a chess invitation starts in the
\* canonical initial state: standard starting board, white to move, both
\* capture counters 0, all four castling rights, no en-passant target, no
\* last move, not over, no winner.
C7_SessionStartsCanonical ==
    [][\A g \in games' :
          (\A h \in games : h.game_uuid # g.game_uuid) => CanonicalStart(g)]_vars

C7_Witness ==
    /\ last.op = "accept_invite" /\ last.outcome = "game_started"
    /\ \E g \in games : CanonicalStart(g) /\ MovesOf(g.game_uuid) = <<>>

\* C8: an invitation to oneself always fails and stores nothing, so no
\* game_invitations row has sender_id = recipient_id.
C8_NoSelfInvite ==
    /\ [](\A i \in invitations : i.sender_id # i.recipient_id)
    /\ [][\A u \in UserIds, n \in GameNames :
             InviteGame(u, n, u) => (last'.outcome = "self_invite" /\ UNCHANGED tables)]_vars

C8_Witness == last.op = "invite_game" /\ last.outcome = "self_invite"

\* a pending invitation between a and b for this game, in either direction
PendingBetween(a, b, game_name) ==
    {i \in invitations : /\ i.status = "pending" /\ i.game_name = game_name
                         /\ {i.sender_id, i.recipient_id} = {a, b}}

\* C9: with invite_game requests handled one after the other, an unordered
\* pair of identities has at most one pending invitation per game kind, and
\* an invite for a pair and kind that has one pending, in either direction,
\* is refused as a duplicate and inserts nothing.
C9_OnePendingPerPairAndKind ==
    /\ [](\A a \in UserIds, b \in UserIds, n \in GameNames :
             Cardinality(PendingBetween(a, b, n)) <= 1)
    /\ [][\A u \in UserIds, n \in GameNames, r \in UserIds :
             (PendingBetween(u, r, n) # {} /\ u # r /\ r \in users /\ InviteGame(u, n, r))
             => (last'.outcome = "duplicate" /\ UNCHANGED tables)]_vars

C9_Witness ==
    /\ last.op = "invite_game" /\ last.outcome = "duplicate"
    /\ \E i \in invitations : i.status = "pending"

\* an invitation with this token that is pending and addressed to u
ResolvableBy(u, t) ==
    \E i \in invitations : i.game_uuid = t /\ i.status = "pending" /\ i.recipient_id = u

\* C10: accept_invite and decline_invite answer not-found and change
\* neither the invitations nor the sessions unless an invitation with the
\* token is still pending and addressed to the caller: the sender, an
\* outsider, or anyone acting on a resolved invitation cannot resolve it.
C10_OnlyPendingRecipientResolves ==
    [][\A u \in UserIds, t \in Uuids :
          /\ \A swap \in BOOLEAN :
                (~ResolvableBy(u, t) /\ AcceptInvite(u, t, swap))
                => (last'.outcome = "not_found" /\ UNCHANGED <<invitations, games>>)
          /\ (~ResolvableBy(u, t) /\ DeclineInvite(u, t))
                => (last'.outcome = "not_found" /\ UNCHANGED <<invitations, games>>)]_vars

\* a refused accept or decline while a resolved invitation exists
C10_Witness ==
    /\ last.op \in {"accept_invite", "decline_invite"} /\ last.outcome = "not_found"
    /\ \E i \in invitations : i.status \in {"accepted", "declined"}

\* C11: after accept_invite succeeds on a pending invitation addressed to
\* the caller, the committed status of that invitation is 'accepted'
\* whatever its game kind; a chess invitation gets its session row in the
\* same operation and any other kind gets no session.
C11_AcceptPersistsStatus ==
    [][\A u \in UserIds, t \in Uuids, swap \in BOOLEAN :
          (/\ ResolvableBy(u, t)
           /\ AcceptInvite(u, t, swap)
           /\ last'.outcome \in {"game_started", "accepted"})
          => \E i \in invitations, j \in invitations' :
                /\ i.game_uuid = t /\ j.id = i.id
                /\ j.status = "accepted"
                /\ IF i.game_name = "chess"
                   THEN \E g \in games' \ games : g.game_uuid = t
                   ELSE games' = games]_vars

\* C12: the move_number stored with the k-th accepted move of a session,
\* counted from 1 in insertion order, is floor((k-1)/2)+1, for every length
\* of move history.
C12_MoveNumberIsHalfMoveCount ==
    \A t \in Uuids :
        LET ms == MovesOf(t) IN
        \A k \in 1..Len(ms) : ms[k].move_number = ((k - 1) \div 2) + 1

\* two sessions with interleaved logs, one of them in its second full move
C12_Witness ==
    \E t \in Uuids, o \in Uuids :
        /\ t # o
        /\ Len(MovesOf(t)) >= 3 /\ Len(MovesOf(o)) >= 2
        /\ moves[1].game_uuid = o

\* the request answered in the next state is an accepted make_move on t
AcceptedMoveOn(t) ==
    /\ last'.op = "make_move" /\ last'.outcome = "accepted"
    /\ last'.emits[1].room = GameRoom(t)

\* C13: an accepted make_move commits the new session state and exactly
\* one new game_moves row together, and every other outcome of make_move, a
\* storage failure included, leaves the session row and the move log as
\* they were: the rows of a token grow by one with each accepted move on it
\* and never otherwise, and a session row changes only with its move row.
C13_MoveCommitsStateAndRowTogether ==
    [][\A t \in Uuids :
          IF AcceptedMoveOn(t)
          THEN /\ Len(MovesOf(t)') = Len(MovesOf(t)) + 1
               /\ Len(moves') = Len(moves) + 1
               /\ \E g \in games' :
                     LET sent == last'.emits[1].payload IN
                     /\ g.game_uuid = t
                     /\ g.current_turn = sent.current_turn
                     /\ g.winner_id = sent.winner_id
                     /\ (g.game_over = PyInt(1)) = Truthy(sent.game_over)
          ELSE /\ MovesOf(t)' = MovesOf(t)
               /\ \A g \in games : g.game_uuid = t => g \in games']_vars

\* a storage failure on a session that already has an accepted move
C13_Witness ==
    /\ last.op = "make_move" /\ last.outcome = "database_error"
    /\ \E g \in games : Len(MovesOf(g.game_uuid)) >= 1

\* C14: every failure of make_move (session not found, not your turn,
\* storage error) is reported only to the connection that proposed the
\* move: each event of a failed move is addressed to that connection and
\* none to the session's channel.
C14_FailureOnlyToProposer ==
    (last.op = "make_move" /\ last.outcome # "accepted")
        => \A k \in 1..Len(last.emits) : last.emits[k].room.kind = "sid"

\* C15: request_game_state replies only to the requesting connection and
\* never to a channel: for a known token one game_state_update carrying the
\* persisted session row, for an unknown token one game_error, and in both
\* cases no table changes.
C15_StateRequestRepliesToRequesterOnly ==
    [][\A t \in Uuids :
          (last'.op = "request_game_state" /\ RequestGameState(t)) =>
             /\ UNCHANGED tables
             /\ Len(last'.emits) = 1
             /\ last'.emits[1].room.kind = "sid"
             /\ IF \E g \in games : g.game_uuid = t
                THEN /\ last'.emits[1].event = "game_state_update"
                     /\ \E g \in games :
                           LET sent == last'.emits[1].payload IN
                           /\ g.game_uuid = t /\ sent.game_uuid = t
                           /\ sent.player_white_id = g.player_white_id
                           /\ sent.player_black_id = g.player_black_id
                           /\ sent.current_turn = g.current_turn
                           /\ sent.game_over = g.game_over
                           /\ sent.winner_id = g.winner_id
                ELSE last'.emits[1].event = "game_error"]_vars

\* the reply to a request for a known session that has an accepted move
C15_Witness ==
    /\ last.op = "request_game_state" /\ last.outcome = "state"
    /\ \E g \in games : Len(MovesOf(g.game_uuid)) >= 1 /\ last.emits[1].payload.game_uuid = g.game_uuid

\* C16: for every resulting state accepted by make_move, the board, the
\* castling rights, the en-passant target and the last-move descriptor that
\* request_game_state returns afterwards equal the structures submitted,
\* falsy ones (an empty list, an empty map, 0, null) included.  The state
\* update emitted for the accepted move carries the submitted structures.
C16_JsonColumnsRoundTrip ==
    (last.op = "make_move" /\ last.outcome = "accepted") =>
        LET sent == last.emits[1].payload
            game_uuid == last.emits[1].room.id
        IN  \A g \in GameRows(game_uuid) :
              LET returned == GameStateForJson(g) IN
              /\ returned.current_board_state = sent.current_board_state
              /\ returned.castling_rights = sent.castling_rights
              /\ returned.en_passant_target = sent.en_passant_target
              /\ returned.last_move = sent.last_move

\* C17: the terminal flag is permanent: a session whose game_over is set
\* in some state has it set in every later state.
C17_GameOverIsPermanent ==
    [][\A g \in games :
          g.game_over = PyInt(1) =>
             \E h \in games' : h.game_uuid = g.game_uuid /\ h.game_over = PyInt(1)]_vars

\* C18: in every reachable state a session's winner_id is absent or is
\* one of the session's two participants.
C18_WinnerIsParticipant ==
    \A g \in games :
        g.winner_id \in {PyNone, PyInt(g.player_white_id), PyInt(g.player_black_id)}

\* C19: in every reachable state a session's current_turn is 'w' or 'b'.
C19_TurnIsRoleMarker ==
    \A g \in games : g.current_turn \in {PyStr("w"), PyStr("b")}

\* C20: an invitation's status changes at most once: a new row is pending,
\* a pending row stays pending or becomes accepted or declined, and an
\* accepted or declined row keeps its status under every later request.
C20_StatusChangesAtMostOnce ==
    /\ [](\A i \in invitations : i.status \in {"pending", "accepted", "declined"})
    /\ [][\A j \in invitations' :
             IF \E i \in invitations : i.id = j.id
             THEN \A i \in invitations :
                     (i.id = j.id /\ i.status # "pending") => j.status = i.status
             ELSE j.status = "pending"]_vars

\* an accept_invite or decline_invite was refused while one invitation is
\* accepted and another declined
C20_Witness ==
    /\ last.op \in {"accept_invite", "decline_invite"} /\ last.outcome = "not_found"
    /\ \E i \in invitations : i.status = "accepted"
    /\ \E i \in invitations : i.status = "declined"

\* C23: the move log is append-only: no operation updates or deletes an
\* existing game_moves row, so the log in any later state has the earlier
\* log as a prefix, for every token and also once the session is terminal.
C23_MoveLogAppendOnly ==
    [][/\ Len(moves') >= Len(moves)
       /\ \A k \in 1..Len(moves) : moves'[k] = moves[k]
       /\ \A t \in Uuids :
             /\ Len(MovesOf(t)') >= Len(MovesOf(t))
             /\ SubSeq(MovesOf(t)', 1, Len(MovesOf(t))) = MovesOf(t)]_vars

\* a terminal session that keeps a log of two rows
C23_Witness ==
    \E g \in games : g.game_over = PyInt(1) /\ Len(MovesOf(g.game_uuid)) >= 2

\* the rows of one token in the three tables
RowsOf(t) ==
    <<{i \in invitations : i.game_uuid = t}, GameRows(t), MovesOf(t)>>

\* C24: make_move, accept_invite and decline_invite for a token T change
\* no row of another token: the invitation, the session row and the move
\* log of every token other than T stay as they were.
C24_OtherTokensUntouched ==
    [][\A o \in Uuids :
          (/\ last'.op \in {"make_move", "accept_invite", "decline_invite"}
           /\ RowsOf(o)' # RowsOf(o))
          => \A t \in Uuids \ {o} :
                /\ ~ \E u \in UserIds, swap \in BOOLEAN : AcceptInvite(u, t, swap)
                /\ ~ \E u \in UserIds : DeclineInvite(u, t)
                /\ ~ \E p \in PlayerIds, m \in MoveDatas, s \in NewGameStates :
                        MakeMove(t, p, m, s)]_vars

\* an invitation was resolved while another token's invitation is pending
C24_Witness ==
    /\ last.op \in {"accept_invite", "decline_invite"}
    /\ last.outcome \in {"game_started", "declined"}
    /\ \E i \in invitations : i.status = "pending"

\* C25: invite_game is refused as a duplicate only when a pending
\* invitation for the same unordered pair and the same game kind exists;
\* after an invitation from A to B was accepted or declined, or when A's
\* only invitation to B is for another kind, A can invite B again.
C25_DuplicateOnlyWhenPendingSameKind ==
    [][\A u \in Members, n \in GameNames, r \in Members :
          (/\ last'.op = "invite_game" /\ last'.outcome = "duplicate"
           /\ InviteGame(u, n, r))
          => PendingBetween(u, r, n) # {}]_vars

\* the connection of a make_move event: a logged-in account or nobody
Anonymous == 0
Connections == UserIds \cup {Anonymous}

\* handle_make_move as run for an event of a connection authenticated as
\* current_user_id: the handler carries no @login_required and never reads
\* current_user, so the connection's identity decides nothing
MakeMoveAs(current_user_id, game_uuid, player_id, move_data, new_game_state) ==
    MakeMove(game_uuid, player_id, move_data, new_game_state)

\* C26: a move is accepted only for the identity the connection is
\* authenticated as: a client authenticated as X, or not authenticated,
\* gets no move accepted with another participant's id in the payload.
C26_MoveOnlyForAuthenticatedIdentity ==
    [][\A x \in Connections, t \in Uuids, p \in PlayerIds, m \in MoveDatas, s \in NewGameStates :
          (/\ last'.op = "make_move" /\ last'.outcome = "accepted"
           /\ MakeMoveAs(x, t, p, m, s))
          => p = PyInt(x)]_vars

\* C28: in every reachable state every game_moves row's player_id is one
\* of the two participants of the session named by its game_uuid, and that
\* session exists.
C28_MoverIsParticipant ==
    \A k \in 1..Len(moves) :
        \E g \in games :
            /\ g.game_uuid = moves[k].game_uuid
            /\ moves[k].player_id \in {PyInt(g.player_white_id), PyInt(g.player_black_id)}

\* C29: after delete_user removes an identity, no game invitation, game
\* session or move row referencing it remains, and no move row remains
\* whose session is gone.
C29_DeleteUserCascades ==
    [][(last'.op = "delete_user" /\ last'.outcome = "deleted") =>
          \A u \in users \ users' :
              /\ \A i \in invitations' : i.sender_id # u /\ i.recipient_id # u
              /\ \A g \in games' : g.player_white_id # u /\ g.player_black_id # u
              /\ \A k \in 1..Len(moves') :
                    /\ moves'[k].player_id # PyInt(u)
                    /\ \E g \in games' : g.game_uuid = moves'[k].game_uuid]_vars

\* C30: a game_state_update is sent to a token's channel only by an
\* accepted move, whose session update and move row are committed, and it
\* carries exactly the committed state: what the session row returns for
\* each column is what the update carries.
C30_BroadcastIsCommittedState ==
    \A k \in 1..Len(last.emits) :
        LET e == last.emits[k] IN
        (e.event = "game_state_update" /\ e.room.kind = "game_uuid") =>
            /\ last.op = "make_move" /\ last.outcome = "accepted"
            /\ Len(MovesOf(e.room.id)) >= 1
            /\ \E g \in GameRows(e.room.id) :
                  LET stored == GameStateForJson(g) IN
                  /\ stored.current_board_state = e.payload.current_board_state
                  /\ stored.current_turn = e.payload.current_turn
                  /\ stored.white_captures = e.payload.white_captures
                  /\ stored.black_captures = e.payload.black_captures
                  /\ stored.castling_rights = e.payload.castling_rights
                  /\ stored.en_passant_target = e.payload.en_passant_target
                  /\ stored.last_move = e.payload.last_move
                  /\ (stored.game_over = PyInt(1)) = Truthy(e.payload.game_over)
                  /\ stored.winner_id = e.payload.winner_id

\* requests j and k overlapped: the later one read while the earlier one
\* was between its read and its write
Overlapped(j, k) == j \in requests[k].overlap \/ k \in requests[j].overlap

Resolved(request) == request.outcome \in {"game_started", "accepted", "declined"}

\* C21: when two accept_invite requests, or an accept and a decline, for
\* the same pending invitation overlap, exactly one of them succeeds and
\* the other ends not-found; the invitation ends in the status the winner
\* set, and the token has at most one session row.
C21_OneResolverWins ==
    \A j \in 1..Len(requests), k \in 1..Len(requests) :
        (/\ j # k /\ Overlapped(j, k)
         /\ requests[j].op \in {"accept_invite", "decline_invite"}
         /\ requests[k].op \in {"accept_invite", "decline_invite"}
         /\ requests[j].stage = "done" /\ requests[k].stage = "done"
         /\ requests[j].invite.id = requests[k].invite.id
         /\ Resolved(requests[j]))
        => /\ requests[k].outcome = "not_found"
           /\ \A i \in invitations :
                 i.id = requests[j].invite.id =>
                    i.status = (IF requests[j].op = "accept_invite" THEN "accepted" ELSE "declined")
           /\ Cardinality(GameRows(requests[j].invite.game_uuid)) <= 1

\* C22: the duplicate check is not serialized against concurrent creators:
\* an invite_game that passed its existence check inserts its pending row
\* whatever was inserted since, so two overlapping invite_game calls for
\* one pair and kind both succeed and leave two pending invitations; two
\* such invitations never come from calls that each ran from check to
\* commit undisturbed.
C22_InviteCheckNotSerialized ==
    /\ [][\A k \in 1..Len(requests) :
             (/\ requests[k].op = "invite_game"
              /\ requests[k].stage = "read" /\ requests'[k].stage = "done")
             => /\ requests'[k].outcome = "sent"
                /\ \E i \in invitations' \ invitations :
                      /\ i.status = "pending"
                      /\ i.sender_id = requests[k].current_user_id
                      /\ i.recipient_id = requests[k].recipient_id
                      /\ i.game_name = requests[k].game_name]_vars
    /\ [](\A a \in UserIds, b \in UserIds, n \in GameNames :
             Cardinality(PendingBetween(a, b, n)) >= 2 =>
                \E k \in 1..Len(requests) :
                    /\ requests[k].op = "invite_game" /\ requests[k].stage = "done"
                    /\ requests[k].game_name = n
                    /\ {requests[k].current_user_id, requests[k].recipient_id} = {a, b})

\* two overlapping invite_game calls for one pair and kind were both
\* answered 'sent', and the pair has two pending invitations of that kind
C22_Witness ==
    \E j \in 1..Len(requests), k \in 1..Len(requests) :
        /\ j # k /\ Overlapped(j, k)
        /\ requests[j].op = "invite_game" /\ requests[k].op = "invite_game"
        /\ requests[j].outcome = "sent" /\ requests[k].outcome = "sent"
        /\ requests[j].game_name = requests[k].game_name
        /\ {requests[j].current_user_id, requests[j].recipient_id}
              = {requests[k].current_user_id, requests[k].recipient_id}
        /\ Cardinality(PendingBetween(requests[k].current_user_id, requests[k].recipient_id,
                                      requests[k].game_name)) >= 2

\* C27: when two make_move events of the same participant on their own
\* turn overlap (both read the session before either writes), at most one
\* is accepted: the log gains no two consecutive rows of one identity and
\* no accepted state update is overwritten by the other.
C27_OneOfTwoOverlappingMovesAccepted ==
    /\ \A j \in 1..Len(requests), k \in 1..Len(requests) :
          (/\ j # k /\ Overlapped(j, k)
           /\ requests[j].op = "make_move" /\ requests[k].op = "make_move"
           /\ requests[j].game_uuid = requests[k].game_uuid
           /\ requests[j].player_id = requests[k].player_id)
          => ~(requests[j].outcome = "accepted" /\ requests[k].outcome = "accepted")
    /\ \A t \in Uuids :
          \A n \in 1..(Len(MovesOf(t)) - 1) :
              MovesOf(t)[n].player_id # MovesOf(t)[n + 1].player_id

====
